---------------------------- MODULE Spec2Model ----------------------------
(***************************************************************************)
(* Model of purecloudwallstats (src/main.go): a ticker-driven goroutine    *)
(* polls two analytics queries, reconciles the responses per               *)
(* (queueID, mediaType) key and UPDATEs one row of table QueueStats per    *)
(* key.                                                                    *)
(*                                                                         *)
(* Numbers.  A float64 is modelled as an integer count of quarter-micro    *)
(* units (1.0 = One = 4,000,000), so that the %f verb of the UPDATE        *)
(* statement, which prints six fractional digits, is a real rounding.      *)
(* Counts and %d values are plain integers.  Time is counted in minutes    *)
(* since Go's zero time.                                                   *)
(***************************************************************************)
EXTENDS Integers, Sequences, FiniteSets, TLC

VARIABLES
    queues,          \* appConfig.Queues, the configured list of queue IDs
    granularity,     \* appConfig.Granularity
    table,           \* rows of table QueueStats, by (QueueID, MediaType)
    tickerC,         \* statTicker.C: the ticker's channel (buffer of one)
    tickerStopped,   \* statTicker.Stop() has been called
    mainPc,          \* main(): the startup step it is at, "failed" after a failed
                     \* step, "waiting" at Scanln, "stopped" after Stop, "done"
    procState,       \* the process: "running", "exited", "crashed"
    loopPc,          \* the goroutine: "none" before it is created, "idle" at the
                     \* receive, "aggQuery", "obsQuery",
                     \* "keys", "panicked"; "killed" or "ended" once the process exited
    now,             \* the wall clock, minutes
    startInterval,   \* the interval of the cycle in progress
    endInterval,
    aggResp,         \* the aggregate response of the cycle in progress
    obsResp,         \* the observation response of the cycle in progress
    keyIdx,          \* position of the key loop in the queues x media types product
    trigger,         \* the tick t received by the loop for the cycle in progress
    cycle,           \* number of cycles started so far
    active,          \* number of cycles started and not yet returned
    attempts,        \* positions whose UPDATE was executed in the latest cycle
    writes,          \* positions whose UPDATE succeeded in the latest cycle
    failed,          \* positions whose UPDATE failed in the latest cycle
    reports,         \* errors printed in the latest cycle
    queryState,      \* which queries of the latest cycle returned, and how
    unrecognized,    \* the latest cycle hit the default case of a metric switch
    dIn,             \* metric dispatch: the row being built, before
    dMetric,         \* metric dispatch: the metric instance
    dOut,            \* metric dispatch: the row after, or Panic
    pollFrequency,   \* appConfig.PollFrequencySeconds, in tenths of a second
    tickerPeriod,    \* period of statTicker in seconds, 0 while there is no ticker
    passed,          \* the startup steps of main() that succeeded
    insertIdx,       \* position of prepareDbTables' INSERT loop
    sent,            \* the queries sent to the provider in the latest cycle
    prev             \* an observer's note of one cycle that ran through its keys

vars == <<queues, granularity, table, tickerC, tickerStopped, mainPc, procState,
          loopPc, now, startInterval, endInterval, aggResp, obsResp, keyIdx,
          trigger, cycle, active, attempts, writes, failed, reports, queryState,
          unrecognized, dIn, dMetric, dOut, pollFrequency, tickerPeriod, passed,
          insertIdx, sent, prev>>

-----------------------------------------------------------------------------
(* Bounds of the model *)

MaxQueues == 2      \* longest configured queue list
MaxCycles == 2      \* cycles started in one run
MaxNow == 125       \* latest wall-clock minute drawn
PredicateLimit == 1 \* predicates the provider accepts in one clause
MaxResults == 2     \* results per response in the runs of the key loop alone

-----------------------------------------------------------------------------
(* Configuration and schema *)

QueueIDs == {"q1", "q2"}

\* A queue the provider may report on although it is not configured.
ForeignQueue == "q9"

supportedMediaType == <<"voice", "chat", "email">>

supportedGranularity == [PT30M |-> 30, PT60M |-> 60, PT1H |-> 60]

\* The value of a column that was never given one (all stats are >= 0).
NULL == -1

Counters == {"nError", "nOffered", "nOutboundAbandoned", "nOutboundAttempted",
             "nOutboundConnected", "nTransferred", "nOverSla"}

Triplets == {"tAbandon", "tAcd", "tAcw", "tAgentResponseTime", "tAnswered",
             "tHandle", "tHeld", "tHeldComplete", "tIvr", "tTalk",
             "tTalkComplete", "tUserResponseTime", "tWait"}

MaxFields == {"mtAbandon", "mtAcd", "mtAcw", "mtAgentResponseTime", "mtAnswered",
              "mtHandle", "mtHeld", "mtHeldComplete", "mtIvr", "mtTalk",
              "mtTalkComplete", "mtUserResponseTime", "mtWait"}

CountFields == {"nAbandon", "nAcd", "nAcw", "nAgentResponseTime", "nAnswered",
                "nHandle", "nHeld", "nHeldComplete", "nIvr", "nTalk",
                "nTalkComplete", "nUserResponseTime", "nWait"}

ObsFields == {"oInteracting", "oWaiting"}

FloatFields == {"oServiceLevel", "oServiceTarget"} \cup Triplets \cup MaxFields

AggFields == Counters \cup FloatFields \cup CountFields

\* The stat columns of CREATE TABLE QueueStats.
StatFields == AggFields \cup ObsFields

\* The local variables of one iteration of the key loop, all zero.
ZeroRow == [f \in StatFields |-> 0]

\* A slip: the stat columns declared with DEFAULT 0.
SeedRowZeroed == [f \in StatFields |-> 0]

\* A row as INSERT leaves it: only QueueID, QueueName and MediaType are given.
SeedRow == [f \in StatFields |-> NULL]


-----------------------------------------------------------------------------
(* Numbers and their conversions *)

\* 0.000001 in the unit of the model: the last digit %f prints.
Micro == 4

One == 1000000 * Micro

\* fmt's %f of a float64 >= 0: six fractional digits, correctly rounded
\* (to the nearest; an exact tie to the even digit).
FormatF(x) ==
    LET r == x % Micro
        down == x - r
    IN  IF 2 * r < Micro THEN down
        ELSE IF 2 * r > Micro THEN down + Micro
        ELSE IF (down \div Micro) % 2 = 0 THEN down ELSE down + Micro

\* The values of the SET list of the UPDATE statement: %f for the float
\* variables, %d for the int variables.
FormatRow(row) ==
    [f \in StatFields |-> IF f \in FloatFields THEN FormatF(row[f]) ELSE row[f]]

\* A slip: Round in place of Truncate.
TruncateRounds(t, d) == ((t + d \div 2) \div d) * d

\* time.Time.Truncate(d): t minus its remainder modulo d since the zero time.
Truncate(t, d) == t - (t % d)

\* startInterval.Add(d)
Add(t, d) == t + d

-----------------------------------------------------------------------------
(* Metric dispatch: the two switch statements *)

Stats(count, sum, max, ratio, current) ==
    [Count |-> count, Sum |-> sum, Max |-> max, Ratio |-> ratio, Current |-> current]

Metric(name, stats) == [Metric |-> name, Stats |-> stats]

\* A slip: the sum stored in the max variable and the max in the sum variable.
StoreTripletSwapped(row, t, mt, n, s) ==
    [row EXCEPT ![t] = s.Max, ![mt] = s.Sum, ![n] = s.Count]

\* tX = metric.Stats.Sum; mtX = metric.Stats.Max; nX = int(metric.Stats.Count)
StoreTriplet(row, t, mt, n, s) ==
    [row EXCEPT ![t] = s.Sum, ![mt] = s.Max, ![n] = s.Count]

\* nX = int(metric.Stats.Count)
StoreCount(row, n, s) == [row EXCEPT ![n] = s.Count]

\* The row being built by a recognized case.
Built(row) == [panic |-> FALSE, row |-> row]

\* A slip: a default case that drops the metric.
PanickedIgnored(row) == [panic |-> FALSE, row |-> row]

\* The default case: panic.
Panicked(row) == [panic |-> TRUE, row |-> row]

\* A slip: an observation metric of the aggregate feed stored like a counter.
IgnoreStored(row, n, s) == [row EXCEPT ![n] = s.Count]

\* case metric.Metric == "oInteracting": // ignore this metric
Ignore(row, n, s) == row

\* The switch over metric.Metric of the aggregate result set.
DispatchAgg(row, metric) ==
    LET m == metric.Metric
        s == metric.Stats
    IN  CASE m = "nError" -> Built(StoreCount(row, "nError", s))
          [] m = "nOffered" -> Built(StoreCount(row, "nOffered", s))
          [] m = "nOutboundAbandoned" -> Built(StoreCount(row, "nOutboundAbandoned", s))
          [] m = "nOutboundAttempted" -> Built(StoreCount(row, "nOutboundAttempted", s))
          [] m = "nOutboundConnected" -> Built(StoreCount(row, "nOutboundConnected", s))
          [] m = "nTransferred" -> Built(StoreCount(row, "nTransferred", s))
          [] m = "nOverSla" -> Built(StoreCount(row, "nOverSla", s))
          [] m = "oInteracting" -> Built(Ignore(row, "oInteracting", s))
          [] m = "oServiceLevel" -> Built([row EXCEPT !["oServiceLevel"] = s.Ratio])
          [] m = "oServiceTarget" -> Built([row EXCEPT !["oServiceTarget"] = s.Current])
          [] m = "oWaiting" -> Built(Ignore(row, "oWaiting", s))
          [] m = "tAbandon" -> Built(StoreTriplet(row, "tAbandon", "mtAbandon", "nAbandon", s))
          [] m = "tAcd" -> Built(StoreTriplet(row, "tAcd", "mtAcd", "nAcd", s))
          [] m = "tAcw" -> Built(StoreTriplet(row, "tAcw", "mtAcw", "nAcw", s))
          [] m = "tAgentResponseTime" ->
                Built(StoreTriplet(row, "tAgentResponseTime", "mtAgentResponseTime",
                                   "nAgentResponseTime", s))
          [] m = "tAnswered" -> Built(StoreTriplet(row, "tAnswered", "mtAnswered", "nAnswered", s))
          [] m = "tHandle" -> Built(StoreTriplet(row, "tHandle", "mtHandle", "nHandle", s))
          [] m = "tHeld" -> Built(StoreTriplet(row, "tHeld", "mtHeld", "nHeld", s))
          [] m = "tHeldComplete" ->
                Built(StoreTriplet(row, "tHeldComplete", "mtHeldComplete", "nHeldComplete", s))
          [] m = "tIvr" -> Built(StoreTriplet(row, "tIvr", "mtIvr", "nIvr", s))
          [] m = "tTalk" -> Built(StoreTriplet(row, "tTalk", "mtTalk", "nTalk", s))
          [] m = "tTalkComplete" ->
                Built(StoreTriplet(row, "tTalkComplete", "mtTalkComplete", "nTalkComplete", s))
          [] m = "tUserResponseTime" ->
                Built(StoreTriplet(row, "tUserResponseTime", "mtUserResponseTime",
                                   "nUserResponseTime", s))
          [] m = "tWait" -> Built(StoreTriplet(row, "tWait", "mtWait", "nWait", s))
          [] OTHER -> Panicked(row)

\* The switch over metric.Metric of the observation result set.
DispatchObs(row, metric) ==
    LET m == metric.Metric
        s == metric.Stats
    IN  CASE m = "oInteracting" -> Built(StoreCount(row, "oInteracting", s))
          [] m = "oWaiting" -> Built(StoreCount(row, "oWaiting", s))
          [] OTHER -> Panicked(row)

-----------------------------------------------------------------------------
(* Reconciliation of one key: the body of the key loop up to the UPDATE *)

Group(queueID, mediaType) == [QueueID |-> queueID, MediaType |-> mediaType]

Result(queueID, mediaType, data) == [Group |-> Group(queueID, mediaType), Data |-> data]

\* for _, metric := range data.Metrics { switch ... }
RECURSIVE AggMetrics(_, _, _)
AggMetrics(b, metrics, i) ==
    IF b.panic \/ i > Len(metrics) THEN b
    ELSE AggMetrics(DispatchAgg(b.row, metrics[i]), metrics, i + 1)

\* A slip: the first bucket dispatched and the others left out.
AggDataFirstOnly(b, data, j) == IF data = <<>> THEN b ELSE AggMetrics(b, data[1], 1)

\* for _, data := range result.Data { ... }
RECURSIVE AggData(_, _, _)
AggData(b, data, j) ==
    IF b.panic \/ j > Len(data) THEN b
    ELSE AggData(AggMetrics(b, data[j], 1), data, j + 1)

\* for _, metric := range result.Data { switch ... }
RECURSIVE ObsMetrics(_, _, _)
ObsMetrics(b, metrics, i) ==
    IF b.panic \/ i > Len(metrics) THEN b
    ELSE ObsMetrics(DispatchObs(b.row, metrics[i]), metrics, i + 1)

Matches(result, queueID, mediaType) ==
    result.Group.QueueID = queueID /\ result.Group.MediaType = mediaType

\* A slip: no break, so that the last matching result is the one that counts.
LastMatch(results, queueID, mediaType) ==
    LET hits == {i \in 1..Len(results) : Matches(results[i], queueID, mediaType)}
    IN  IF hits = {} THEN 0 ELSE CHOOSE i \in hits : \A j \in hits : i >= j

\* The result at which the scan of a result set breaks: the first one whose
\* group is the key; 0 when the scan runs off the end.
FirstMatch(results, queueID, mediaType) ==
    LET hits == {i \in 1..Len(results) : Matches(results[i], queueID, mediaType)}
    IN  IF hits = {} THEN 0 ELSE CHOOSE i \in hits : \A j \in hits : i <= j

\* A slip: the stat variables declared outside the loop, so that an iteration
\* starts from what the previous one left (here: what the table holds).
CarriedVars(tbl, queueID, mediaType) == tbl[<<queueID, mediaType>>]

\* The stat variables as declared at the top of an iteration.
LoopVars(tbl, queueID, mediaType) == ZeroRow

\* One iteration up to the Printf before the UPDATE: the values to write, or
\* the panic.
BuildRow(tbl, queueID, mediaType, agg, obs) ==
    LET a  == FirstMatch(agg, queueID, mediaType)
        o  == FirstMatch(obs, queueID, mediaType)
        b0 == Built(LoopVars(tbl, queueID, mediaType))
        b1 == IF a = 0 THEN b0 ELSE AggData(b0, agg[a].Data, 1)
    IN  IF b1.panic \/ o = 0 THEN b1 ELSE ObsMetrics(b1, obs[o].Data, 1)


-----------------------------------------------------------------------------
(* The key loop and the table *)

Range(seq) == {seq[i] : i \in 1..Len(seq)}

NMedia == Len(supportedMediaType)

\* A slip: the loop over the media types left out.
NKeysQueuesOnly(qs) == Len(qs)

\* Iterations of the nested loops over appConfig.Queues and supportedMediaType.
NKeys(qs) == Len(qs) * NMedia

QueueAt(qs, i) == qs[((i - 1) \div NMedia) + 1]

MediaAt(i) == supportedMediaType[((i - 1) % NMedia) + 1]

KeyAt(qs, i) == <<QueueAt(qs, i), MediaAt(i)>>

\* The keys of the rows INSERTed by prepareDbTables.
Keys(qs) == {<<q, m>> : q \in Range(qs), m \in Range(supportedMediaType)}

\* The table once prepareDbTables has returned.
SeededTable(qs) == [k \in Keys(qs) |-> SeedRow]

\* A slip: the UPDATE adding to the integer columns instead of setting them.
UpdateAdds(tbl, queueID, mediaType, row) ==
    [k \in DOMAIN tbl |->
        IF k = <<queueID, mediaType>>
        THEN [f \in StatFields |->
                 IF f \in FloatFields \/ tbl[k][f] = NULL
                 THEN FormatRow(row)[f]
                 ELSE tbl[k][f] + FormatRow(row)[f]]
        ELSE tbl[k]]

\* A slip: the table emptied and the row inserted anew.
UpdateReplacesTable(tbl, queueID, mediaType, row) ==
    [k \in {<<queueID, mediaType>>} |-> FormatRow(row)]

\* A slip: the UPDATE without its WHERE clause.
UpdateEveryRow(tbl, queueID, mediaType, row) == [k \in DOMAIN tbl |-> FormatRow(row)]

\* UPDATE QueueStats SET <every stat column> WHERE QueueID = .. AND MediaType = ..
Update(tbl, queueID, mediaType, row) ==
    [k \in DOMAIN tbl |-> IF k = <<queueID, mediaType>> THEN FormatRow(row) ELSE tbl[k]]

-----------------------------------------------------------------------------
(* The provider's responses drawn by the model *)

NoStats == Stats(0, 0, 0, 0, 0)

\* sum = 120.5, max = 45.0, count = 3
StatsA == Stats(3, 120 * One + One \div 2, 45 * One, 0, 0)

\* sum = 300, max = 120, count = 5
StatsB == Stats(5, 300 * One, 120 * One, 0, 0)

\* Values that are no whole number of micros: ratio 0.83333325, current
\* 20.00000075, sum 7.00000025, max 2.00000075.
StatsC == Stats(7, 7 * One + 1, 2 * One + 3, 3333333, 20 * One + 3)

UnknownMetric == "xUnknown"

AggResponses ==
    { <<>>,
      \* one key, one bucket, one duration metric
      << Result("q1", "voice", << <<Metric("tAnswered", StatsB)>> >>) >>,
      \* two keys; the ignored observation metrics inside the aggregate feed
      << Result("q1", "chat", << <<Metric("nOffered", StatsC), Metric("oServiceLevel", StatsC),
                                   Metric("oWaiting", StatsA)>> >>),
         Result("q2", "voice", << <<Metric("tWait", StatsC)>> >>) >>,
      \* an unrecognized metric under the second key of the loop
      << Result("q1", "chat", << <<Metric("nError", StatsA), Metric(UnknownMetric, StatsA)>> >>) >>,
      \* two buckets, and a second result for the same key
      << Result("q1", "voice", << <<Metric("tAcd", StatsA)>>, <<Metric("tAcd", StatsB)>> >>),
         Result("q1", "voice", << <<Metric(UnknownMetric, StatsA)>> >>) >>,
      \* a queue that is not configured
      << Result(ForeignQueue, "voice", << <<Metric(UnknownMetric, StatsA)>> >>) >> }

ObsResponses ==
    { <<>>,
      << Result("q1", "voice", <<Metric("oInteracting", StatsA), Metric("oWaiting", StatsB)>>) >>,
      \* an unrecognized metric under the third key of the loop
      << Result("q1", "email", <<Metric("oWaiting", StatsC), Metric("oOnQueueUsers", StatsA)>>) >> }


-----------------------------------------------------------------------------
(* The queries of queryQueueIntervalStats *)

Predicate(dimension, value) == [dimension |-> dimension, value |-> value]

\* One predicate per supported media type.
MediaTypeClause ==
    [i \in 1..Len(supportedMediaType) |-> Predicate("mediaType", supportedMediaType[i])]

\* A slip: the clause cut at the provider's limit.
QueueIDClauseCapped(qs) ==
    [i \in 1..(IF Len(qs) < PredicateLimit THEN Len(qs) ELSE PredicateLimit) |->
        Predicate("queueId", qs[i])]

\* One predicate per entry of appConfig.Queues, in the order of the list.
QueueIDClause(qs) == [i \in 1..Len(qs) |-> Predicate("queueId", qs[i])]

\* The aggregate query: nothing on the way to the send can fail.
AggQuery(qs, g, start, end) ==
    [kind |-> "aggregate", interval |-> <<start, end>>, granularity |-> g,
     groupBy |-> <<"queueId">>, clauses |-> <<MediaTypeClause, QueueIDClause(qs)>>]

\* The observation query reuses the filter of the aggregate query.
ObsQuery(aggQuery) == [kind |-> "observation", clauses |-> aggQuery.clauses]

-----------------------------------------------------------------------------
(* The ticker and the polling goroutine *)

\* A tick: whether a cycle was in progress when it fired, and how many cycles
\* had started by then.
Tick(busy, firedIn) == [busy |-> busy, firedIn |-> firedIn]

\* A slip: a channel that queues every tick.
TickerSendQueued(c, t) == Append(c, t)

\* The ticker's send on its channel, which buffers one tick: a tick that finds
\* the buffer full is dropped.
TickerSend(c, t) == IF Len(c) < 1 THEN Append(c, t) ELSE c

\* A slip: a cycle launched for every tick, whatever the loop is doing.
ReceiveAnytime == TRUE

\* The goroutine is at the receive of "for t := range statTicker.C".
LoopAtReceive == loopPc = "idle"

\* A slip: the error printed and the function carrying on.
QueryErrFallsThrough == "keys"

\* A slip: the goroutine leaving its loop at the first error.
QueryErrEndsLoop == "ended"

\* Where a failed query leaves the goroutine: both functions return, the loop
\* prints the error and goes back to the receive.
QueryErrPc == "idle"

\* A slip: continue instead of return.
WriteErrContinues(i) == [pc |-> "keys", idx |-> i + 1]

\* Where a failed UPDATE at position i leaves the goroutine: the function
\* returns, the loop prints the error and goes back to the receive.
WriteErrNext(i) == [pc |-> "idle", idx |-> i]

\* A slip: the panic recovered and the loop going on.
PanicRecovered == [loop |-> "idle", proc |-> "running"]

\* An unrecovered panic in a goroutine ends the process.
PanicEffect == [loop |-> "panicked", proc |-> "crashed"]

Running == procState = "running"

\* The ticker fires.
TickFire ==
    /\ Running
    /\ tickerPeriod > 0
    /\ ~tickerStopped
    /\ tickerC' = TickerSend(tickerC, Tick(loopPc # "idle", cycle))
    /\ UNCHANGED <<queues, granularity, table, tickerStopped, mainPc, procState, loopPc,
                   now, startInterval, endInterval, aggResp, obsResp, keyIdx, trigger,
                   cycle, active, attempts, writes, failed, reports, queryState,
                   unrecognized,
                   dIn, dMetric, dOut, pollFrequency, tickerPeriod, passed, insertIdx,
                   sent, prev>>

\* The loop receives a tick, computes the current interval and calls
\* queryAndWriteQueueStatsToDb.
StartCycle ==
    /\ Running
    /\ LoopAtReceive
    /\ tickerC # <<>>
    /\ cycle < MaxCycles
    /\ trigger' = Head(tickerC)
    /\ tickerC' = Tail(tickerC)
    /\ startInterval' = Truncate(now, supportedGranularity[granularity])
    /\ endInterval' = Add(startInterval', supportedGranularity[granularity])
    /\ loopPc' = "aggQuery"
    /\ cycle' = cycle + 1
    /\ active' = active + 1
    /\ aggResp' = <<>>
    /\ obsResp' = <<>>
    /\ keyIdx' = 1
    /\ attempts' = <<>>
    /\ writes' = <<>>
    /\ failed' = {}
    /\ reports' = {}
    /\ queryState' = "none"
    /\ unrecognized' = FALSE
    /\ sent' = <<AggQuery(queues, granularity, startInterval', endInterval')>>
    /\ UNCHANGED <<queues, granularity, table, tickerStopped, mainPc, procState, now,
                   dIn, dMetric, dOut, pollFrequency, tickerPeriod,
                   passed, insertIdx, prev>>

\* How a failed query ends: printed by queryQueueIntervalStats, by
\* queryAndWriteQueueStatsToDb and by the loop.
QueryFails(state) ==
    /\ queryState' = state
    /\ reports' = reports \cup {"query", "cycle", "loop"}
    /\ loopPc' = QueryErrPc
    /\ active' = IF loopPc' = "idle" THEN active - 1 ELSE active
    /\ aggResp' = <<>>
    /\ obsResp' = <<>>
    /\ UNCHANGED <<queues, granularity, table, tickerC, tickerStopped, mainPc, procState,
                   now, startInterval, endInterval, keyIdx, trigger, cycle, attempts,
                   writes, failed, unrecognized,
                   dIn, dMetric, dOut, pollFrequency, tickerPeriod, passed, insertIdx,
                   sent, prev>>

\* analytics.QueryConversationAggregates returns a response.
AggQueryOk ==
    /\ Running
    /\ loopPc = "aggQuery"
    /\ \E r \in AggResponses : aggResp' = r
    /\ queryState' = "agg"
    /\ sent' = Append(sent, ObsQuery(sent[1]))
    /\ loopPc' = "obsQuery"
    /\ UNCHANGED <<queues, granularity, table, tickerC, tickerStopped, mainPc, procState,
                   now, startInterval, endInterval, obsResp, keyIdx, trigger, cycle,
                   active, attempts, writes, failed, reports, unrecognized,
                   dIn, dMetric, dOut, pollFrequency, tickerPeriod,
                   passed, insertIdx, prev>>

\* analytics.QueryConversationAggregates returns an error.
AggQueryErr ==
    /\ Running
    /\ loopPc = "aggQuery"
    /\ QueryFails("aggErr")

\* analytics.QueryQueueObservations returns a response.
ObsQueryOk ==
    /\ Running
    /\ loopPc = "obsQuery"
    /\ \E r \in ObsResponses : obsResp' = r
    /\ queryState' = "both"
    /\ loopPc' = "keys"
    /\ UNCHANGED <<queues, granularity, table, tickerC, tickerStopped, mainPc, procState,
                   now, startInterval, endInterval, aggResp, keyIdx, trigger, cycle,
                   active, attempts, writes, failed, reports, unrecognized,
                   dIn, dMetric, dOut, pollFrequency, tickerPeriod,
                   passed, insertIdx, sent, prev>>

\* analytics.QueryQueueObservations returns an error.
ObsQueryErr ==
    /\ Running
    /\ loopPc = "obsQuery"
    /\ QueryFails("obsErr")

\* The row of the iteration at keyIdx.
CurrentBuild ==
    BuildRow(table, QueueAt(queues, keyIdx), MediaAt(keyIdx), aggResp, obsResp)

AtKey == Running /\ loopPc = "keys" /\ keyIdx <= NKeys(queues)

\* One iteration of the key loop hits the default case of a switch.
KeyPanic ==
    /\ AtKey
    /\ CurrentBuild.panic
    /\ unrecognized' = TRUE
    /\ loopPc' = PanicEffect.loop
    /\ procState' = PanicEffect.proc
    /\ active' = IF loopPc' = "idle" THEN active - 1 ELSE active
    /\ UNCHANGED <<queues, granularity, table, tickerC, tickerStopped, mainPc, now,
                   startInterval, endInterval, aggResp, obsResp, keyIdx, trigger, cycle,
                   attempts, writes, failed, reports, queryState,
                   dIn, dMetric, dOut, pollFrequency, tickerPeriod,
                   passed, insertIdx, sent, prev>>

\* One iteration of the key loop: the row is built and its UPDATE succeeds.
KeyWriteOk ==
    /\ AtKey
    /\ ~CurrentBuild.panic
    /\ table' = Update(table, QueueAt(queues, keyIdx), MediaAt(keyIdx), CurrentBuild.row)
    /\ attempts' = Append(attempts, keyIdx)
    /\ writes' = Append(writes, keyIdx)
    /\ keyIdx' = keyIdx + 1
    /\ UNCHANGED <<queues, granularity, tickerC, tickerStopped, mainPc, procState, loopPc,
                   now, startInterval, endInterval, aggResp, obsResp, trigger, cycle,
                   active, failed, reports, queryState, unrecognized,
                   dIn, dMetric, dOut, pollFrequency, tickerPeriod,
                   passed, insertIdx, sent, prev>>

\* One iteration of the key loop: the row is built and its UPDATE fails.
KeyWriteErr ==
    /\ AtKey
    /\ ~CurrentBuild.panic
    /\ attempts' = Append(attempts, keyIdx)
    /\ failed' = failed \cup {keyIdx}
    /\ reports' = reports \cup {"write", "loop"}
    /\ loopPc' = WriteErrNext(keyIdx).pc
    /\ keyIdx' = WriteErrNext(keyIdx).idx
    /\ active' = IF loopPc' = "idle" THEN active - 1 ELSE active
    /\ aggResp' = IF loopPc' = "idle" THEN <<>> ELSE aggResp
    /\ obsResp' = IF loopPc' = "idle" THEN <<>> ELSE obsResp
    /\ UNCHANGED <<queues, granularity, table, tickerC, tickerStopped, mainPc, procState,
                   now, startInterval, endInterval, trigger, cycle, writes, queryState,
                   unrecognized,
                   dIn, dMetric, dOut, pollFrequency, tickerPeriod, passed, insertIdx,
                   sent, prev>>

\* The key loop is over: the function returns nil and the loop goes back to the
\* receive.
CycleReturn ==
    /\ Running
    /\ loopPc = "keys"
    /\ keyIdx > NKeys(queues)
    /\ loopPc' = "idle"
    /\ active' = active - 1
    /\ aggResp' = <<>>
    /\ obsResp' = <<>>
    /\ UNCHANGED <<queues, granularity, table, tickerC, tickerStopped, mainPc, procState,
                   now, startInterval, endInterval, keyIdx, trigger, cycle, attempts,
                   writes, failed, reports, queryState, unrecognized,
                   dIn, dMetric, dOut, pollFrequency, tickerPeriod, passed, insertIdx,
                   sent, prev>>

\* A slip: a Stop that empties the channel.
StopDrains(c) == <<>>

\* statTicker.Stop() leaves the channel as it is: it neither closes it nor
\* takes out a tick already sent.
StopKeeps(c) == c

\* main: ENTER is read and the ticker is stopped.
MainStop ==
    /\ Running
    /\ mainPc = "waiting"
    /\ tickerStopped' = TRUE
    /\ tickerC' = StopKeeps(tickerC)
    /\ mainPc' = "stopped"
    /\ UNCHANGED <<queues, granularity, table, procState, loopPc, now,
                   startInterval, endInterval, aggResp, obsResp, keyIdx, trigger, cycle,
                   active, attempts, writes, failed, reports, queryState, unrecognized,
                   dIn, dMetric, dOut, pollFrequency, tickerPeriod, passed, insertIdx,
                   sent, prev>>

\* main returns: the process ends, whatever the goroutine is doing.  Nothing of
\* the process outlives it but the table; of the goroutine the model keeps
\* whether a cycle was cut short ("killed") or none was in progress ("ended").
MainReturn ==
    /\ Running
    /\ mainPc = "stopped"
    /\ mainPc' = "done"
    /\ procState' = "exited"
    /\ loopPc' = IF loopPc = "idle" THEN "ended" ELSE "killed"
    /\ tickerC' = <<>>
    /\ aggResp' = <<>>
    /\ obsResp' = <<>>
    /\ keyIdx' = 1
    /\ attempts' = <<>>
    /\ writes' = <<>>
    /\ failed' = {}
    /\ reports' = {}
    /\ queryState' = "none"
    /\ sent' = <<>>
    /\ UNCHANGED <<queues, granularity, table, tickerStopped, now, startInterval,
                   endInterval, trigger, cycle, active, unrecognized,
                   dIn, dMetric, dOut, pollFrequency, tickerPeriod, passed, insertIdx,
                   prev>>

-----------------------------------------------------------------------------
(* Startup: main() up to the return of startGrabbingPureCloudStats *)

\* PollFrequencySeconds is a float32; the model counts it in tenths.
Deci == 10

\* Go's conversion of a float to an integer drops the fraction (toward zero).
IntOf(x) == IF x >= 0 THEN x \div Deci ELSE -((-x) \div Deci)

GranularityOk(g) == g \in DOMAIN supportedGranularity

\* A slip: the upper limit of the frequency forgotten.
FrequencyPositive(f) == IntOf(f) > 0

\* The frequency check of loadAppConfig, on the converted value.
FrequencyOk(f) == ~(IntOf(f) <= 0 \/ IntOf(f) > 60)

\* The period of the ticker, in seconds.
TickPeriod(f) == IntOf(f)

StartupSteps == <<"loadAppConfig", "sqlOpen", "ping", "login", "prepare", "insert">>

\* The table before CREATE TABLE has run: no row.
NoTable == [k \in {} |-> SeedRow]

\* INSERT INTO QueueStats (QueueID, QueueName, MediaType): the stat columns of
\* the new row get no value.
Insert(tbl, queueID, mediaType) ==
    [k \in DOMAIN tbl \cup {<<queueID, mediaType>>} |->
        IF k \in DOMAIN tbl THEN tbl[k] ELSE SeedRow]

\* The observer's note before any cycle was noted.
NoPrev == [cycle |-> 0, agg |-> <<>>, obs |-> <<>>, table |-> NoTable]

\* The frequency of the runs that do not draw it.
BootFrequency == 50

-----------------------------------------------------------------------------
(* The polling loop from the moment startGrabbingPureCloudStats has returned *)

\* The configured queue lists drawn: every list of at most MaxQueues IDs, a
\* repeated ID included.
Configs == UNION {[1..n -> QueueIDs] : n \in 0..MaxQueues}

\* The wall clock of the runs that do not draw it.
BootTime == 95

InitWith(qs, g, t) ==
    /\ queues = qs
    /\ granularity = g
    /\ table = SeededTable(qs)
    /\ tickerC = <<>>
    /\ tickerStopped = FALSE
    /\ mainPc = "waiting"
    /\ procState = "running"
    /\ loopPc = "idle"
    /\ now = t
    /\ startInterval = 0
    /\ endInterval = 0
    /\ aggResp = <<>>
    /\ obsResp = <<>>
    /\ keyIdx = 1
    /\ trigger = Tick(FALSE, 0)
    /\ cycle = 0
    /\ active = 0
    /\ attempts = <<>>
    /\ writes = <<>>
    /\ failed = {}
    /\ reports = {}
    /\ queryState = "none"
    /\ unrecognized = FALSE
    /\ pollFrequency = BootFrequency
    /\ tickerPeriod = TickPeriod(BootFrequency)
    /\ passed = Range(StartupSteps)
    /\ insertIdx = NKeys(qs) + 1
    /\ sent = <<>>
    /\ prev = NoPrev

DispatchIdle ==
    /\ dIn = ZeroRow
    /\ dMetric = Metric("nError", NoStats)
    /\ dOut = [done |-> "no", panic |-> FALSE, row |-> ZeroRow]

Init ==
    /\ \E qs \in Configs : InitWith(qs, "PT30M", BootTime)
    /\ DispatchIdle

Next ==
    \/ TickFire
    \/ StartCycle
    \/ AggQueryOk
    \/ AggQueryErr
    \/ ObsQueryOk
    \/ ObsQueryErr
    \/ KeyPanic
    \/ KeyWriteOk
    \/ KeyWriteErr
    \/ CycleReturn
    \/ MainStop
    \/ MainReturn

Spec == Init /\ [][Next]_vars

-----------------------------------------------------------------------------
(* Startup followed by the polling loop *)

AtStep(step) == Running /\ mainPc = step

\* A step of main() returns an error: main prints it and returns.
Fail(step) ==
    /\ mainPc' = "failed"
    /\ procState' = "exited"
    /\ reports' = {step}
    /\ UNCHANGED <<queues, granularity, table, tickerC, tickerStopped, loopPc, now,
                   startInterval, endInterval, aggResp, obsResp, keyIdx, trigger, cycle,
                   active, attempts, writes, failed, queryState, unrecognized,
                   dIn, dMetric, dOut, pollFrequency, tickerPeriod, passed, insertIdx,
                   sent, prev>>

\* A step of main() succeeds and main goes on to the next.
Advance(step, to) ==
    /\ mainPc' = to
    /\ passed' = passed \cup {step}
    /\ UNCHANGED <<queues, granularity, table, tickerC, tickerStopped, procState, loopPc,
                   now, startInterval, endInterval, aggResp, obsResp, keyIdx, trigger,
                   cycle, active, attempts, writes, failed, reports, queryState,
                   unrecognized, dIn, dMetric, dOut, pollFrequency, tickerPeriod,
                   insertIdx, sent, prev>>

\* loadAppConfig: the file is read and decoded and both checks pass.
LoadAppConfigOk ==
    /\ AtStep("loadAppConfig")
    /\ GranularityOk(granularity)
    /\ FrequencyOk(pollFrequency)
    /\ Advance("loadAppConfig", "sqlOpen")

\* loadAppConfig: no argument, an unreadable file or a malformed one.
LoadAppConfigUnread ==
    /\ AtStep("loadAppConfig")
    /\ Fail("loadAppConfig")

\* loadAppConfig: the file is decoded and one of the checks rejects it.
LoadAppConfigInvalid ==
    /\ AtStep("loadAppConfig")
    /\ ~(GranularityOk(granularity) /\ FrequencyOk(pollFrequency))
    /\ Fail(IF GranularityOk(granularity) THEN "frequency" ELSE "granularity")

SqlOpenOk == AtStep("sqlOpen") /\ Advance("sqlOpen", "ping")

SqlOpenErr == AtStep("sqlOpen") /\ Fail("sqlOpen")

PingOk == AtStep("ping") /\ Advance("ping", "login")

PingErr == AtStep("ping") /\ Fail("ping")

LoginOk == AtStep("login") /\ Advance("login", "prepare")

LoginErr == AtStep("login") /\ Fail("login")

\* prepareDbTables: the queue names are fetched, the old table dropped (its
\* error ignored) and the new one created.
CreateTableOk ==
    /\ AtStep("prepare")
    /\ mainPc' = "insert"
    /\ passed' = passed \cup {"prepare"}
    /\ table' = NoTable
    /\ insertIdx' = 1
    /\ UNCHANGED <<queues, granularity, tickerC, tickerStopped, procState, loopPc,
                   now, startInterval, endInterval, aggResp, obsResp, keyIdx, trigger,
                   cycle, active, attempts, writes, failed, reports, queryState,
                   unrecognized, dIn, dMetric, dOut, pollFrequency, tickerPeriod,
                   sent, prev>>

\* prepareDbTables: getPureCloudQueues or CREATE TABLE fails.
CreateTableErr == AtStep("prepare") /\ Fail("prepare")

\* prepareDbTables: one INSERT of the nested loop succeeds.
InsertOk ==
    /\ AtStep("insert")
    /\ insertIdx <= NKeys(queues)
    /\ table' = Insert(table, QueueAt(queues, insertIdx), MediaAt(insertIdx))
    /\ insertIdx' = insertIdx + 1
    /\ UNCHANGED <<queues, granularity, tickerC, tickerStopped, mainPc, procState, loopPc,
                   now, startInterval, endInterval, aggResp, obsResp, keyIdx, trigger,
                   cycle, active, attempts, writes, failed, reports, queryState,
                   unrecognized, dIn, dMetric, dOut, pollFrequency, tickerPeriod,
                   passed, sent, prev>>

\* prepareDbTables: one INSERT fails.
InsertErr ==
    /\ AtStep("insert")
    /\ insertIdx <= NKeys(queues)
    /\ Fail("insert")

\* prepareDbTables returns nil; startGrabbingPureCloudStats creates the ticker
\* and the goroutine, and main goes on to wait for ENTER.
StartGrabbing ==
    /\ AtStep("insert")
    /\ insertIdx > NKeys(queues)
    /\ tickerPeriod' = TickPeriod(pollFrequency)
    /\ loopPc' = "idle"
    /\ mainPc' = "waiting"
    /\ passed' = passed \cup {"insert"}
    /\ UNCHANGED <<queues, granularity, table, tickerC, tickerStopped, procState,
                   now, startInterval, endInterval, aggResp, obsResp, keyIdx, trigger,
                   cycle, active, attempts, writes, failed, reports, queryState,
                   unrecognized, dIn, dMetric, dOut, pollFrequency, insertIdx,
                   sent, prev>>

\* The configuration files drawn: every supported granularity and one that is
\* not, frequencies on both sides of both limits of the check.
GranularitySamples == DOMAIN supportedGranularity \cup {"PT15M"}

FrequencySamples == {-10, 0, 9, 10, 609, 610}

InitStartup ==
    /\ queues \in {qs \in Configs : Len(qs) <= 1}
    /\ granularity \in GranularitySamples
    /\ pollFrequency \in FrequencySamples
    /\ table = NoTable
    /\ tickerC = <<>>
    /\ tickerStopped = FALSE
    /\ mainPc = "loadAppConfig"
    /\ procState = "running"
    /\ loopPc = "none"
    /\ now = BootTime
    /\ startInterval = 0
    /\ endInterval = 0
    /\ aggResp = <<>>
    /\ obsResp = <<>>
    /\ keyIdx = 1
    /\ trigger = Tick(FALSE, 0)
    /\ cycle = 0
    /\ active = 0
    /\ attempts = <<>>
    /\ writes = <<>>
    /\ failed = {}
    /\ reports = {}
    /\ queryState = "none"
    /\ unrecognized = FALSE
    /\ tickerPeriod = 0
    /\ passed = {}
    /\ insertIdx = 1
    /\ sent = <<>>
    /\ prev = NoPrev
    /\ DispatchIdle

NextStartup ==
    \/ LoadAppConfigOk
    \/ LoadAppConfigUnread
    \/ LoadAppConfigInvalid
    \/ SqlOpenOk
    \/ SqlOpenErr
    \/ PingOk
    \/ PingErr
    \/ LoginOk
    \/ LoginErr
    \/ CreateTableOk
    \/ CreateTableErr
    \/ InsertOk
    \/ InsertErr
    \/ StartGrabbing
    \/ TickFire
    \/ StartCycle
    \/ AggQueryOk
    \/ AggQueryErr
    \/ ObsQueryOk
    \/ ObsQueryErr
    \/ KeyPanic
    \/ KeyWriteOk
    \/ KeyWriteErr
    \/ CycleReturn

SpecStartup == InitStartup /\ [][NextStartup]_vars



-----------------------------------------------------------------------------
(* The polling loop under an observer that notes one cycle *)

\* The observer notes the responses and the table of a cycle whose key loop is
\* over, before the function returns.  The program takes no part in it.
Snapshot ==
    /\ Running
    /\ loopPc = "keys"
    /\ keyIdx > NKeys(queues)
    /\ prev.cycle = 0
    /\ prev' = [cycle |-> cycle, agg |-> aggResp, obs |-> obsResp, table |-> table]
    /\ UNCHANGED <<queues, granularity, table, tickerC, tickerStopped, mainPc, procState,
                   loopPc, now, startInterval, endInterval, aggResp, obsResp, keyIdx,
                   trigger, cycle, active, attempts, writes, failed, reports, queryState,
                   unrecognized, dIn, dMetric, dOut, pollFrequency, tickerPeriod,
                   passed, insertIdx, sent>>

NextTwice ==
    \/ TickFire
    \/ StartCycle
    \/ AggQueryOk
    \/ AggQueryErr
    \/ ObsQueryOk
    \/ ObsQueryErr
    \/ KeyPanic
    \/ KeyWriteOk
    \/ KeyWriteErr
    \/ CycleReturn
    \/ Snapshot

SpecTwice == Init /\ [][NextTwice]_vars

-----------------------------------------------------------------------------
(* The key loop on its own: a cycle whose two responses have just come in *)

\* Every sequence of at most n elements of S.
SeqsUpTo(S, n) == UNION {[1..m -> S] : m \in 0..n}

\* Data buckets of an aggregate result: one duration metric; the same metric
\* with other values beside a counter; the two observation metrics; an
\* unrecognized metric; a counter alone.
BucketAcd == <<Metric("tAcd", StatsA)>>
BucketAcdOffered == <<Metric("tAcd", StatsB), Metric("nOffered", StatsC)>>
BucketObserved == <<Metric("oInteracting", StatsB), Metric("oWaiting", StatsA)>>
BucketUnknown == <<Metric(UnknownMetric, StatsA)>>
BucketOffered == <<Metric("nOffered", StatsA)>>

ScanAggResults ==
    { Result("q1", "voice", <<BucketAcd>>),
      Result("q1", "voice", <<BucketAcd, BucketAcdOffered>>),
      Result("q1", "voice", <<BucketAcdOffered, BucketAcd>>),
      Result("q1", "voice", <<BucketObserved, BucketOffered>>),
      Result("q1", "voice", <<BucketOffered, BucketUnknown>>),
      Result("q1", "voice", <<BucketUnknown>>),
      Result("q1", "chat", <<BucketAcdOffered>>) }

ScanObsResults ==
    { Result("q1", "voice", <<Metric("oInteracting", StatsA), Metric("oWaiting", StatsB)>>),
      Result("q1", "voice", <<Metric("oWaiting", StatsC)>>),
      Result("q1", "voice", <<Metric(UnknownMetric, StatsA)>>),
      Result("q1", "chat", <<Metric("oInteracting", StatsC)>>) }

\* The goroutine of a process configured for queue q1 is in its first cycle and
\* both queries have returned: any MaxResults results in either response.
InitScan ==
    /\ queues = <<"q1">>
    /\ granularity = "PT30M"
    /\ table = SeededTable(queues)
    /\ tickerC = <<>>
    /\ tickerStopped = FALSE
    /\ mainPc = "waiting"
    /\ procState = "running"
    /\ loopPc = "keys"
    /\ now = BootTime
    /\ startInterval = Truncate(BootTime, supportedGranularity["PT30M"])
    /\ endInterval = Add(startInterval, supportedGranularity["PT30M"])
    /\ aggResp \in SeqsUpTo(ScanAggResults, MaxResults)
    /\ obsResp \in SeqsUpTo(ScanObsResults, MaxResults)
    /\ keyIdx = 1
    /\ trigger = Tick(FALSE, 0)
    /\ cycle = 1
    /\ active = 1
    /\ attempts = <<>>
    /\ writes = <<>>
    /\ failed = {}
    /\ reports = {}
    /\ queryState = "both"
    /\ unrecognized = FALSE
    /\ pollFrequency = BootFrequency
    /\ tickerPeriod = TickPeriod(BootFrequency)
    /\ passed = Range(StartupSteps)
    /\ insertIdx = NKeys(queues) + 1
    /\ sent = <<AggQuery(queues, granularity, startInterval, endInterval),
                ObsQuery(AggQuery(queues, granularity, startInterval, endInterval))>>
    /\ prev = NoPrev
    /\ DispatchIdle

NextScan ==
    \/ KeyPanic
    \/ KeyWriteOk
    \/ KeyWriteErr
    \/ CycleReturn

SpecScan == InitScan /\ [][NextScan]_vars

-----------------------------------------------------------------------------
(* The polling loop while time passes, under fair scheduling *)

\* The wall clock passes into the next interval.
ClockAdvance ==
    /\ Running
    /\ now + supportedGranularity[granularity] <= MaxNow
    /\ now' = now + supportedGranularity[granularity]
    /\ UNCHANGED <<queues, granularity, table, tickerC, tickerStopped, mainPc, procState,
                   loopPc, startInterval, endInterval, aggResp, obsResp, keyIdx,
                   trigger, cycle, active, attempts, writes, failed, reports, queryState,
                   unrecognized, dIn, dMetric, dOut, pollFrequency, tickerPeriod,
                   passed, insertIdx, sent, prev>>

InitRecover ==
    /\ \E qs \in {qs \in Configs : Len(qs) <= 1} : InitWith(qs, "PT30M", BootTime)
    /\ DispatchIdle

NextRecover ==
    \/ ClockAdvance
    \/ TickFire
    \/ StartCycle
    \/ AggQueryOk
    \/ AggQueryErr
    \/ ObsQueryOk
    \/ ObsQueryErr
    \/ KeyPanic
    \/ KeyWriteOk
    \/ KeyWriteErr
    \/ CycleReturn
    \/ MainStop
    \/ MainReturn

\* A running ticker keeps firing, and a goroutine blocked at the receive is
\* scheduled once the channel holds a tick.
SpecRecover ==
    /\ InitRecover
    /\ [][NextRecover]_vars
    /\ WF_vars(TickFire)
    /\ WF_vars(StartCycle)

-----------------------------------------------------------------------------
(* The interval clock: the loop under every wall clock and granularity *)

InitClock ==
    /\ \E t \in 0..MaxNow : \E g \in DOMAIN supportedGranularity :
          InitWith(<<"q1">>, g, t)
    /\ DispatchIdle

NextClock ==
    \/ TickFire
    \/ StartCycle
    \/ AggQueryErr

SpecClock == InitClock /\ [][NextClock]_vars

-----------------------------------------------------------------------------
(* Metric dispatch on its own: one metric instance against one row *)

AggMetricNames ==
    Counters \cup Triplets \cup
    {"oInteracting", "oServiceLevel", "oServiceTarget", "oWaiting", UnknownMetric}

StatsSamples == {NoStats, StatsA, StatsB, StatsC}

MetricSamples == {Metric(n, s) : n \in AggMetricNames, s \in StatsSamples}

\* A row none of whose values is a value of StatsSamples.
UsedRow == [f \in StatFields |-> 9]

RowSamples == {ZeroRow, UsedRow}

InitDispatch ==
    /\ InitWith(<<"q1">>, "PT30M", BootTime)
    /\ dIn \in RowSamples
    /\ dMetric \in MetricSamples
    /\ dOut = [done |-> "no", panic |-> FALSE, row |-> dIn]

Others ==
    <<queues, granularity, table, tickerC, tickerStopped, mainPc, procState, loopPc,
      now, startInterval, endInterval, aggResp, obsResp, keyIdx, trigger, cycle,
      active, attempts, writes, failed, reports, queryState, unrecognized,
      pollFrequency, tickerPeriod, passed, insertIdx, sent, prev>>

\* One pass through the aggregate switch, from the row dIn.
DispatchStep ==
    /\ dOut.done = "no"
    /\ LET b == DispatchAgg(dIn, dMetric)
       IN  dOut' = [done |-> "dispatch", panic |-> b.panic, row |-> b.row]
    /\ UNCHANGED <<dIn, dMetric>>
    /\ UNCHANGED Others

\* One iteration of the key loop for ("q1", "voice") when the aggregate
\* response holds dMetric alone under that key and the observation response is
\* empty.
ReconcileStep ==
    /\ dOut.done = "no"
    /\ LET b == BuildRow(table, "q1", "voice",
                         << Result("q1", "voice", << <<dMetric>> >>) >>, <<>>)
       IN  dOut' = [done |-> "reconcile", panic |-> b.panic, row |-> b.row]
    /\ UNCHANGED <<dIn, dMetric>>
    /\ UNCHANGED Others

NextDispatch ==
    \/ DispatchStep
    \/ ReconcileStep

SpecDispatch == InitDispatch /\ [][NextDispatch]_vars


-----------------------------------------------------------------------------
(* Vocabulary of the properties, stated on the responses themselves *)

RecognizedAgg ==
    {"nError", "nOffered", "nOutboundAbandoned", "nOutboundAttempted",
     "nOutboundConnected", "nTransferred", "nOverSla", "oInteracting",
     "oServiceLevel", "oServiceTarget", "oWaiting", "tAbandon", "tAcd", "tAcw",
     "tAgentResponseTime", "tAnswered", "tHandle", "tHeld", "tHeldComplete",
     "tIvr", "tTalk", "tTalkComplete", "tUserResponseTime", "tWait"}

RecognizedObs == {"oInteracting", "oWaiting"}

\* The max and count columns that go with each duration column.
TripletColumns ==
    [tAbandon |-> <<"mtAbandon", "nAbandon">>,
     tAcd |-> <<"mtAcd", "nAcd">>,
     tAcw |-> <<"mtAcw", "nAcw">>,
     tAgentResponseTime |-> <<"mtAgentResponseTime", "nAgentResponseTime">>,
     tAnswered |-> <<"mtAnswered", "nAnswered">>,
     tHandle |-> <<"mtHandle", "nHandle">>,
     tHeld |-> <<"mtHeld", "nHeld">>,
     tHeldComplete |-> <<"mtHeldComplete", "nHeldComplete">>,
     tIvr |-> <<"mtIvr", "nIvr">>,
     tTalk |-> <<"mtTalk", "nTalk">>,
     tTalkComplete |-> <<"mtTalkComplete", "nTalkComplete">>,
     tUserResponseTime |-> <<"mtUserResponseTime", "nUserResponseTime">>,
     tWait |-> <<"mtWait", "nWait">>]

AggResultHasUnknown(result) ==
    \E j \in 1..Len(result.Data) : \E i \in 1..Len(result.Data[j]) :
        result.Data[j][i].Metric \notin RecognizedAgg

ObsResultHasUnknown(result) ==
    \E i \in 1..Len(result.Data) : result.Data[i].Metric \notin RecognizedObs

GroupKey(result) == <<result.Group.QueueID, result.Group.MediaType>>

\* Some result of either response, under a tracked key, names an unrecognized
\* metric.
UnknownUnderTrackedKey ==
    \/ \E i \in 1..Len(aggResp) :
          GroupKey(aggResp[i]) \in Keys(queues) /\ AggResultHasUnknown(aggResp[i])
    \/ \E i \in 1..Len(obsResp) :
          GroupKey(obsResp[i]) \in Keys(queues) /\ ObsResultHasUnknown(obsResp[i])

HasGroup(results, k) == \E i \in 1..Len(results) : GroupKey(results[i]) = k

\* The first result of `results` for key k names an unrecognized metric.
FirstAggUnknown(results, k) ==
    \E i \in 1..Len(results) :
        /\ GroupKey(results[i]) = k
        /\ \A j \in 1..(i - 1) : GroupKey(results[j]) # k
        /\ AggResultHasUnknown(results[i])

FirstObsUnknown(results, k) ==
    \E i \in 1..Len(results) :
        /\ GroupKey(results[i]) = k
        /\ \A j \in 1..(i - 1) : GroupKey(results[j]) # k
        /\ ObsResultHasUnknown(results[i])

\* The iteration at position i of the key loop meets an unrecognized metric.
UnknownAtPos(i) ==
    \/ FirstAggUnknown(aggResp, KeyAt(queues, i))
    \/ FirstObsUnknown(obsResp, KeyAt(queues, i))

InCycle == loopPc \in {"aggQuery", "obsQuery", "keys", "panicked", "killed"}

\* The latest cycle ran through the whole key loop with no error.
CycleCompleted ==
    /\ cycle > 0
    /\ queryState = "both"
    /\ failed = {}
    /\ ~unrecognized
    /\ \/ loopPc = "idle"
       \/ loopPc = "keys" /\ keyIdx > NKeys(queues)

Positions(n) == [i \in 1..n |-> i]

NoRepeatedQueue == \A i, j \in 1..Len(queues) : queues[i] = queues[j] => i = j

-----------------------------------------------------------------------------
(* C1 *)

\* C1, as stated: when the UPDATE of some key has failed, the failure is
\* reported and the UPDATE is still attempted for every remaining key of the
\* queues x media types product in the same cycle.
C1_RemainingKeysAttempted ==
    (failed # {} /\ loopPc = "idle") =>
        /\ "write" \in reports
        /\ Len(attempts) = NKeys(queues)

\* C1, amended: a failed UPDATE is reported (by the function and by the loop)
\* and ends the cycle at once: it is the last UPDATE attempted in that cycle,
\* the keys before it were written in loop order and no key after it is
\* attempted.
C1_WriteErrorEndsCycle ==
    failed # {} =>
        /\ loopPc = "idle"
        /\ active = 0
        /\ {"write", "loop"} \subseteq reports
        /\ attempts = Positions(Len(attempts))
        /\ failed = {Len(attempts)}
        /\ writes = Positions(Len(attempts) - 1)

C1_Witness ==
    /\ failed # {}
    /\ writes # <<>>
    /\ Len(attempts) < NKeys(queues)

-----------------------------------------------------------------------------
(* C2 *)

\* C2, as stated: when either response of the cycle names an unrecognized
\* metric under a tracked key, no row is written in that cycle.
C2_NoRowWritten ==
    (loopPc \in {"keys", "panicked"} /\ UnknownUnderTrackedKey) => writes = <<>>

\* C2, amended: when the first result matching a tracked key, in either
\* response, names an unrecognized metric, no UPDATE is attempted in that cycle
\* for the position of that key or any later position of the key loop; the
\* positions before it have been written by the time the panic occurs.
C2_NoWriteFromUnknownOn ==
    /\ loopPc \in {"keys", "panicked"} =>
          \A i \in 1..NKeys(queues) :
              UnknownAtPos(i) => \A j \in 1..Len(attempts) : attempts[j] < i
    /\ unrecognized =>
          /\ UnknownAtPos(keyIdx)
          /\ writes = Positions(keyIdx - 1)

C2_Witness ==
    /\ unrecognized
    /\ writes = <<1>>
    /\ keyIdx = 2
    /\ table[KeyAt(queues, 1)] = FormatRow(ZeroRow)
    /\ table[KeyAt(queues, 2)] = SeedRow

-----------------------------------------------------------------------------
(* C3 *)

\* C3, as stated: an unrecognized metric name is never fatal to the process;
\* after the cycle that received it the polling loop is still running.
C3_ProcessSurvives ==
    unrecognized => (procState = "running" /\ loopPc # "panicked")

\* C3, amended: an unrecognized metric name met by the key loop is fatal to the
\* process: the panic is not recovered, the cycle never returns, and nothing
\* runs afterwards, so no later tick starts a cycle.
C3_PanicEndsProcess ==
    unrecognized =>
        /\ procState = "crashed"
        /\ loopPc = "panicked"
        /\ active = 1
        /\ ~ENABLED Next

C3_Witness ==
    /\ unrecognized
    /\ tickerC # <<>>
    /\ ~tickerStopped
    /\ cycle < MaxCycles

-----------------------------------------------------------------------------
(* C4 *)

\* C4: a row is written only when both queries of the cycle have returned
\* successfully; no step taken before that changes the table, and a cycle one
\* of whose queries fails is reported, executes no UPDATE and leaves the table
\* as it was.
C4_NoWriteBeforeBothQueries ==
    [][ /\ table' # table => (queryState = "both" /\ loopPc = "keys")
        /\ attempts' # <<>> => queryState' = "both"
        /\ loopPc \in {"aggQuery", "obsQuery"} => (attempts = <<>> /\ table' = table)
        /\ queryState' \in {"aggErr", "obsErr"} =>
              /\ loopPc' = "idle"
              /\ attempts' = <<>>
              /\ table' = table
              /\ "query" \in reports'
      ]_vars

C4_Witness ==
    /\ queryState = "obsErr"
    /\ cycle = 2
    /\ table # SeededTable(queues)

-----------------------------------------------------------------------------
(* C5 *)

-----------------------------------------------------------------------------
(* C6 *)

\* C6, as stated: a cycle in which no write fails produces exactly |K| row
\* writes, exactly one for each key of K = configured queues x media types,
\* each with a value for every stat field.
C6_OneWritePerKey ==
    CycleCompleted =>
        /\ Len(writes) = Cardinality(Keys(queues))
        /\ \A k \in Keys(queues) :
              /\ Cardinality({j \in 1..Len(writes) : KeyAt(queues, writes[j]) = k}) = 1
              /\ \A f \in StatFields : table[k][f] # NULL

\* C6, amended: a cycle in which no write fails produces one row write per
\* entry of the configured queue list and media type, in loop order, each with
\* a value for every stat field; that is exactly one write per key of K when
\* no queue ID is configured twice, and one write per occurrence otherwise.
C6_OneWritePerListEntry ==
    CycleCompleted =>
        /\ writes = Positions(Len(queues) * Cardinality(Range(supportedMediaType)))
        /\ \A k \in Keys(queues) :
              /\ \E j \in 1..Len(writes) : KeyAt(queues, writes[j]) = k
              /\ \A f \in StatFields : table[k][f] # NULL
        /\ NoRepeatedQueue =>
              /\ Len(writes) = Cardinality(Keys(queues))
              /\ \A k \in Keys(queues) :
                    Cardinality({j \in 1..Len(writes) : KeyAt(queues, writes[j]) = k}) = 1

C6_Witness ==
    /\ CycleCompleted
    /\ NoRepeatedQueue
    /\ Len(queues) = 2
    /\ Len(writes) = 6

-----------------------------------------------------------------------------
(* C7 *)

\* C7: a tracked key with no matching result in the aggregate (observation)
\* response raises no error, and the row written for it in that cycle has
\* every aggregate-sourced (observation-sourced) field equal to zero, whatever
\* the table held before.
C7_AbsentGroupingWritesZero ==
    /\ loopPc = "keys" =>
          \A j \in 1..Len(writes) :
              LET k == KeyAt(queues, writes[j])
              IN  /\ ~HasGroup(aggResp, k) => \A f \in AggFields : table[k][f] = 0
                  /\ ~HasGroup(obsResp, k) => \A f \in ObsFields : table[k][f] = 0
    /\ unrecognized =>
          LET k == KeyAt(queues, keyIdx)
          IN  /\ HasGroup(aggResp, k) \/ HasGroup(obsResp, k)
              /\ ~HasGroup(aggResp, k) => FirstObsUnknown(obsResp, k)
              /\ ~HasGroup(obsResp, k) => FirstAggUnknown(aggResp, k)

C7_Witness ==
    /\ loopPc = "keys"
    /\ cycle = 2
    /\ Len(writes) >= 2
    /\ LET k1 == KeyAt(queues, writes[1])
           k2 == KeyAt(queues, writes[2])
       IN  /\ HasGroup(aggResp, k1)
           /\ HasGroup(obsResp, k1)
           /\ table[k1]["tAnswered"] > 0
           /\ table[k1]["oWaiting"] > 0
           /\ ~HasGroup(aggResp, k2)
           /\ ~HasGroup(obsResp, k2)
           /\ table[k2] = FormatRow(ZeroRow)

-----------------------------------------------------------------------------
(* C8 *)

\* C8: dispatching one metric instance named after a duration column X stores
\* its sum in X, its max in the matching mt column and its count in the
\* matching n column, and changes no other field; reconciled alone against an
\* empty observation response, every other field of the row is zero.
C8_TripletDispatch ==
    (dOut.done # "no" /\ dMetric.Metric \in DOMAIN TripletColumns) =>
        LET x    == dMetric.Metric
            mt   == TripletColumns[x][1]
            n    == TripletColumns[x][2]
            rest == StatFields \ {x, mt, n}
        IN  /\ ~dOut.panic
            /\ dOut.row[x] = dMetric.Stats.Sum
            /\ dOut.row[mt] = dMetric.Stats.Max
            /\ dOut.row[n] = dMetric.Stats.Count
            /\ dOut.done = "dispatch" => \A f \in rest : dOut.row[f] = dIn[f]
            /\ dOut.done = "reconcile" => \A f \in rest : dOut.row[f] = 0

C8_Witness ==
    /\ dOut.done = "dispatch"
    /\ dMetric = Metric("tHeldComplete", StatsA)
    /\ dIn = UsedRow
    /\ dOut.row["tHeldComplete"] = 120 * One + One \div 2
    /\ dOut.row["mtHeldComplete"] = 45 * One
    /\ dOut.row["nHeldComplete"] = 3
    /\ dOut.row["tHeld"] = 9

-----------------------------------------------------------------------------
(* C9 *)

\* C9: at no time are two cycles in progress: a cycle starts only when the
\* previous one has returned, however many ticks fire meanwhile.
C9_OneCycleAtATime ==
    /\ active <= 1
    /\ active = 1 <=> InCycle

C9_Witness ==
    /\ active = 1
    /\ loopPc = "keys"
    /\ writes # <<>>
    /\ tickerC # <<>>
    /\ Head(tickerC).busy
    /\ Head(tickerC).firedIn = cycle

-----------------------------------------------------------------------------
(* C10 *)

\* C10, as stated: a tick that fires while a cycle is in progress is dropped
\* and never queued, so every cycle that starts is triggered by a tick that
\* fired while no cycle was in progress.
C10_BusyTickNeverStartsCycle ==
    /\ cycle > 0 => ~trigger.busy
    /\ \A i \in 1..Len(tickerC) : ~tickerC[i].busy

\* C10, amended: the ticker's channel holds one tick.  A tick that fires while
\* a cycle is in progress and the channel is empty is kept and starts the next
\* cycle as soon as the current one returns; only a tick that fires while one
\* is already held is dropped.  So at most one tick is ever pending, and every
\* cycle is triggered by a tick that fired after the previous cycle started.
C10_OneTickHeld ==
    /\ Len(tickerC) <= 1
    /\ cycle > 0 => trigger.firedIn = cycle - 1
    /\ \A i \in 1..Len(tickerC) : tickerC[i].firedIn = cycle

C10_Witness ==
    /\ cycle = 2
    /\ loopPc = "aggQuery"
    /\ trigger.busy
    /\ trigger.firedIn = 1

-----------------------------------------------------------------------------
(* C11 *)

\* The goroutine, the ticker, a cycle or a query exists.
LoopStarted == loopPc # "none" \/ tickerPeriod # 0 \/ cycle > 0 \/ sent # <<>> \/ tickerC # <<>>

-----------------------------------------------------------------------------
(* C12 *)

\* The keys whose UPDATE succeeded in the latest cycle.
WrittenKeys == {KeyAt(queues, writes[j]) : j \in 1..Len(writes)}

\* C12, as stated: whenever no cycle is in progress, the rows of the table all
\* come from one cycle or are all seeded; a cycle that wrote has written every
\* row before it ends, so no rows of different cycles are ever mixed.
C12_SingleSnapshot ==
    loopPc = "idle" => WrittenKeys \in {{}, Keys(queues)}

\* C12, amended: a cycle writes row by row, in loop order, and each UPDATE
\* changes the row of its own key only.  When the cycle has ended, the rows it
\* wrote are those of the first n positions of the loop: every position if the
\* cycle ran through, the positions before the failed UPDATE or before the
\* unrecognized metric otherwise, none if a query failed.  The other rows keep
\* what an earlier cycle or the seeding left in them.
C12_WrittenPrefix ==
    /\ [](loopPc \in {"idle", "panicked"} =>
            /\ writes = Positions(Len(writes))
            /\ \/ Len(writes) = NKeys(queues)
               \/ cycle = 0
               \/ queryState \in {"aggErr", "obsErr"}
               \/ failed = {Len(writes) + 1}
               \/ unrecognized /\ keyIdx = Len(writes) + 1)
    /\ [][\A k \in DOMAIN table :
             table'[k] # table[k] =>
                /\ loopPc = "keys"
                /\ k = KeyAt(queues, keyIdx)
                /\ writes' = Append(writes, keyIdx)]_vars

C12_Witness ==
    /\ loopPc = "idle"
    /\ cycle = 2
    /\ failed # {}
    /\ writes # <<>>
    /\ \E k \in Keys(queues) \ WrittenKeys :
          /\ table[k] # SeedRow
          /\ \E k2 \in WrittenKeys : table[k2] # table[k]

-----------------------------------------------------------------------------
(* C13 *)

\* The cycle in progress received the responses of the cycle noted in prev.
SameResponsesAsNoted ==
    /\ prev.cycle > 0
    /\ prev.cycle < cycle
    /\ loopPc = "keys"
    /\ aggResp = prev.agg
    /\ obsResp = prev.obs

\* C13: a cycle that receives the same aggregate and observation responses as
\* an earlier cycle that ran through writes, key by key, the rows the earlier
\* cycle wrote; when its key loop is over the table is equal to the table the
\* earlier cycle left.
C13_SameResponsesSameTable ==
    SameResponsesAsNoted =>
        /\ \A j \in 1..Len(writes) :
              table[KeyAt(queues, writes[j])] = prev.table[KeyAt(queues, writes[j])]
        /\ keyIdx > NKeys(queues) => table = prev.table

C13_Witness ==
    /\ SameResponsesAsNoted
    /\ prev.cycle = cycle - 1
    /\ keyIdx > NKeys(queues)
    /\ Len(queues) = 2
    /\ \E k \in Keys(queues) : \E f \in StatFields : table[k][f] > 0

-----------------------------------------------------------------------------
(* C14 *)

\* C14, as stated: when more queue IDs are configured than the provider takes
\* predicates, building the queries fails and no query is sent.
C14_OverLimitNeverSent ==
    Len(queues) > PredicateLimit => sent = <<>>

\* C14, amended: building the queries never fails and knows no limit.  Every
\* cycle sends the aggregate query, and the observation query once the
\* aggregate response is in, whatever the number of configured queue IDs; the
\* queueId clause of every query sent has exactly one predicate per entry of
\* the configured list, in its order.
C14_OnePredicatePerQueue ==
    /\ InCycle /\ loopPc # "killed" => Len(sent) >= 1
    /\ queryState \in {"agg", "both", "obsErr"} => Len(sent) = 2
    /\ \A i \in 1..Len(sent) :
          LET clause == sent[i].clauses[2]
          IN  /\ Len(sent[i].clauses) = 2
              /\ Len(clause) = Len(queues)
              /\ \A j \in 1..Len(queues) :
                    clause[j] = [dimension |-> "queueId", value |-> queues[j]]

C14_Witness ==
    /\ Len(queues) > PredicateLimit
    /\ queryState = "both"
    /\ Len(sent) = 2
    /\ sent[1].kind = "aggregate"
    /\ sent[2].kind = "observation"

-----------------------------------------------------------------------------
(* C15 *)

\* The metric that feeds an aggregate-sourced column, and the statistic taken.
FieldMetric(f) ==
    IF f \in MaxFields THEN CHOOSE t \in Triplets : TripletColumns[t][1] = f
    ELSE IF f \in CountFields THEN CHOOSE t \in Triplets : TripletColumns[t][2] = f
    ELSE f

FieldStat(f, s) ==
    IF f \in Triplets THEN s.Sum
    ELSE IF f \in MaxFields THEN s.Max
    ELSE IF f = "oServiceLevel" THEN s.Ratio
    ELSE IF f = "oServiceTarget" THEN s.Current
    ELSE s.Count

\* The value column f gets from the buckets `data`: that of the last instance
\* of its metric, in the order of the buckets and of the metrics in a bucket;
\* zero when the metric is in none of them.  Printed as the UPDATE prints it.
ValueIn(data, f) ==
    LET at == UNION {{<<j, i>> : i \in {i \in 1..Len(data[j]) :
                                            data[j][i].Metric = FieldMetric(f)}} :
                     j \in 1..Len(data)}
        last == CHOOSE p \in at :
                    \A q \in at : q[1] < p[1] \/ (q[1] = p[1] /\ q[2] <= p[2])
        v == IF at = {} THEN 0 ELSE FieldStat(f, data[last[1]][last[2]].Stats)
    IN  IF f \in FloatFields THEN FormatF(v) ELSE v

\* The first result of `results` under key k.
FirstGroup(results, k) ==
    results[CHOOSE i \in 1..Len(results) :
                /\ GroupKey(results[i]) = k
                /\ \A j \in 1..(i - 1) : GroupKey(results[j]) # k]

\* C15, as stated: when the matching aggregate grouping of a key has several
\* data buckets, the aggregate-sourced fields of the row written are those
\* dispatched from the first bucket; later buckets change nothing.
C15_FirstBucketOnly ==
    loopPc = "keys" =>
        \A j \in 1..Len(writes) :
            LET k == KeyAt(queues, writes[j])
            IN  HasGroup(aggResp, k) /\ Len(FirstGroup(aggResp, k).Data) > 1 =>
                    \A f \in AggFields :
                        table[k][f] = ValueIn(<<FirstGroup(aggResp, k).Data[1]>>, f)

\* C15, amended: every data bucket of the matching aggregate grouping is
\* dispatched, in order.  Each aggregate-sourced field of the row written has
\* the value of the last instance of its metric over all the buckets, zero if
\* no bucket has it; an unrecognized metric in any bucket, not only the
\* first, ends the process.
C15_EveryBucketLastWins ==
    loopPc = "keys" =>
        \A j \in 1..Len(writes) :
            LET k == KeyAt(queues, writes[j])
            IN  HasGroup(aggResp, k) /\ Len(FirstGroup(aggResp, k).Data) > 1 =>
                    /\ \A f \in AggFields :
                          table[k][f] = ValueIn(FirstGroup(aggResp, k).Data, f)
                    /\ ~AggResultHasUnknown(FirstGroup(aggResp, k))

C15_Witness ==
    /\ loopPc = "keys"
    /\ writes # <<>>
    /\ LET k == KeyAt(queues, writes[1])
       IN  /\ HasGroup(aggResp, k)
           /\ FirstGroup(aggResp, k).Data = <<BucketAcd, BucketAcdOffered>>
           /\ table[k]["tAcd"] = StatsB.Sum
           /\ table[k]["nOffered"] = StatsC.Count

-----------------------------------------------------------------------------
(* C16 *)

\* How many results of `results` are under key k.
NGroups(results, k) == Cardinality({i \in 1..Len(results) : GroupKey(results[i]) = k})

\* The value an observation-sourced column gets from the metrics of one
\* observation result: the count of the last instance of its metric, zero
\* when there is none.
ObsValueIn(metrics, f) ==
    LET at == {i \in 1..Len(metrics) : metrics[i].Metric = f}
    IN  IF at = {} THEN 0
        ELSE metrics[CHOOSE i \in at : \A h \in at : h <= i].Stats.Count

\* C16: when several results of a response are under the same key, the row of
\* the key is built from the first of them in response order; the later ones
\* are not dispatched, and an unrecognized metric in one of them is not
\* noticed: an iteration panics only when the first result under its key, in
\* one of the responses, names an unrecognized metric.
C16_FirstGroupingOnly ==
    /\ loopPc = "keys" =>
          \A j \in 1..Len(writes) :
              LET k == KeyAt(queues, writes[j])
              IN  /\ NGroups(aggResp, k) >= 2 =>
                        \A f \in AggFields :
                            table[k][f] = ValueIn(FirstGroup(aggResp, k).Data, f)
                  /\ NGroups(obsResp, k) >= 2 =>
                        \A f \in ObsFields :
                            table[k][f] = ObsValueIn(FirstGroup(obsResp, k).Data, f)
    /\ unrecognized => UnknownAtPos(keyIdx)

C16_Witness ==
    /\ loopPc = "keys"
    /\ writes # <<>>
    /\ LET k == KeyAt(queues, writes[1])
       IN  /\ NGroups(aggResp, k) = 2
           /\ NGroups(obsResp, k) = 2
           /\ AggResultHasUnknown(aggResp[2])
           /\ ObsResultHasUnknown(obsResp[2])
           /\ aggResp[1].Data # aggResp[2].Data
           /\ table[k]["tAcd"] > 0
           /\ table[k]["oWaiting"] > 0

-----------------------------------------------------------------------------
(* C17 *)

\* The metric names of the first aggregate result under key k.
FirstAggNames(k) ==
    LET data == FirstGroup(aggResp, k).Data
    IN  UNION {{data[j][i].Metric : i \in 1..Len(data[j])} : j \in 1..Len(data)}

\* C17: oInteracting and oWaiting in the aggregate response raise no error and
\* write nothing; the oInteracting and oWaiting of the row written come from
\* the observation response of the cycle alone (zero when it has no result
\* for the key).
C17_AggObservationMetricsDropped ==
    /\ loopPc = "keys" =>
          \A j \in 1..Len(writes) :
              LET k == KeyAt(queues, writes[j])
              IN  \A f \in {"oInteracting", "oWaiting"} :
                      table[k][f] = IF HasGroup(obsResp, k)
                                    THEN ObsValueIn(FirstGroup(obsResp, k).Data, f)
                                    ELSE 0
    /\ unrecognized =>
          LET k == KeyAt(queues, keyIdx)
          IN  HasGroup(aggResp, k) =>
                  \/ \E n \in FirstAggNames(k) \ {"oInteracting", "oWaiting"} :
                        n \notin Counters \cup Triplets \cup {"oServiceLevel", "oServiceTarget"}
                  \/ FirstObsUnknown(obsResp, k)

C17_Witness ==
    /\ loopPc = "keys"
    /\ writes # <<>>
    /\ LET k == KeyAt(queues, writes[1])
       IN  /\ HasGroup(aggResp, k)
           /\ FirstGroup(aggResp, k).Data = <<BucketObserved, BucketOffered>>
           /\ HasGroup(obsResp, k)
           /\ table[k]["oInteracting"] = 0
           /\ table[k]["oWaiting"] = StatsC.Count
           /\ table[k]["nOffered"] = StatsA.Count

-----------------------------------------------------------------------------
(* C18 *)

\* C18: from the moment the polling loop exists, the keys of the table are
\* the configured queue IDs crossed with voice, chat and email; no step of a
\* cycle adds a key, removes one or changes one.
C18_KeysAreCrossProduct ==
    /\ [](loopPc # "none" =>
            DOMAIN table = Range(queues) \X {"voice", "chat", "email"})
    /\ [][loopPc # "none" => DOMAIN table' = DOMAIN table]_vars

C18_Witness ==
    /\ cycle = 2
    /\ loopPc = "keys"
    /\ Len(writes) = 2
    /\ queues # <<>>
    /\ DOMAIN table = {<<queues[1], "voice">>, <<queues[1], "chat">>, <<queues[1], "email">>}
    /\ table[<<queues[1], "chat">>] # SeedRow

-----------------------------------------------------------------------------
(* C19 *)

\* The rows no UPDATE has reached yet: while at most one cycle has started,
\* those of the keys the cycle has not written.
NeverWritten == IF cycle <= 1 THEN DOMAIN table \ WrittenKeys ELSE {}

\* C19, as stated: once startup is over, the row of a key no cycle has written
\* holds zero in every stat field.
C19_SeededRowsAreZero ==
    loopPc # "none" => \A k \in NeverWritten : \A f \in StatFields : table[k][f] = 0

\* C19, amended: once startup is over, the row of a key no cycle has written
\* holds no value (NULL) in any stat field: the INSERT that seeds it names the
\* key columns only.  A stat field gets a value, zero included, with the first
\* UPDATE of its row that succeeds.
C19_SeededRowsAreNull ==
    loopPc # "none" =>
        /\ \A k \in NeverWritten : \A f \in StatFields : table[k][f] = NULL
        /\ \A k \in WrittenKeys : \A f \in StatFields : table[k][f] # NULL

C19_Witness ==
    /\ loopPc = "idle"
    /\ cycle = 1
    /\ failed = {2}
    /\ writes = <<1>>
    /\ \E f \in StatFields : table[KeyAt(queues, 1)][f] = 0
    /\ \A f \in StatFields : table[KeyAt(queues, 2)][f] = NULL

-----------------------------------------------------------------------------
(* C20 *)

\* C20, as stated: once the ticker is stopped no cycle starts, and a cycle in
\* flight at that moment is never cut short.
C20_StoppedCycleRunsToCompletion ==
    [][/\ tickerStopped => cycle' = cycle
       /\ loopPc' # "killed"]_vars

\* C20, amended: Stop only keeps the ticker from sending: it leaves the
\* goroutine, the table and a tick already in the channel as they are, so one
\* more cycle, and no more than one, can start after it.  main returns right
\* after Stop and the process exits: a cycle in flight at that moment is cut
\* where it stands, with its remaining keys unwritten and nothing reported,
\* and nothing runs afterwards.
C20_StopThenExit ==
    [][/\ tickerStopped' /\ ~tickerStopped =>
             UNCHANGED <<loopPc, keyIdx, table, tickerC, cycle, writes, reports>>
       /\ tickerStopped => Len(tickerC') <= Len(tickerC)
       /\ tickerStopped /\ cycle' # cycle =>
             /\ cycle' = cycle + 1
             /\ tickerC # <<>>
             /\ tickerC' = <<>>
       /\ procState = "running" /\ procState' = "exited" =>
             /\ tickerStopped
             /\ loopPc' = IF loopPc = "idle" THEN "ended" ELSE "killed"
             /\ table' = table
       /\ procState = "exited" => FALSE]_vars

C20_Witness ==
    /\ procState = "exited"
    /\ loopPc = "killed"
    /\ tickerStopped
    /\ cycle = 1
    /\ \E k \in Keys(queues) : table[k] = SeedRow
    /\ \E k \in Keys(queues) : table[k] # SeedRow

-----------------------------------------------------------------------------
(* C21 *)

\* The latest cycle ended by a query error or a write error, and the goroutine
\* is back at the receive.
FailedCycleOver ==
    /\ Running
    /\ loopPc = "idle"
    /\ cycle > 0
    /\ queryState \in {"aggErr", "obsErr"} \/ failed # {}

\* The row the responses of the cycle in progress give key k.
RowFromResponses(k) ==
    [f \in StatFields |->
        IF f \in ObsFields
        THEN IF HasGroup(obsResp, k) THEN ObsValueIn(FirstGroup(obsResp, k).Data, f) ELSE 0
        ELSE IF HasGroup(aggResp, k) THEN ValueIn(FirstGroup(aggResp, k).Data, f) ELSE 0]

=============================================================================
